---------------------------- MODULE Spec2Model ----------------------------
(***************************************************************************)
(* Model of the dashboard front end of the Financial Research Agent:       *)
(*   - ResearchAgent.jsx : the research workspace (runAgent, runGemini,    *)
(*     runGroq, toggleStep, handleExportPdf) and the API client            *)
(*     (runResearchAgent, runLLM, ...) at the end of the same file;        *)
(*   - FloatingAgent.jsx : the floating chat panel (sendMessage) with its  *)
(*     ticker/query classifier.                                            *)
(*                                                                         *)
(* JavaScript strings are sequences of one-character strings, so that      *)
(* trim, match, replace, toUpperCase and join are computed character by    *)
(* character.  An async handler is split at its await: the part up to the  *)
(* await is one action, the continuation after the request settles is      *)
(* another (JavaScript runs each to completion).                           *)
(***************************************************************************)
EXTENDS Integers, Sequences, FiniteSets, TLC

(***************************************************************************)
(* Bounds of the model.                                                    *)
(***************************************************************************)
\* handler invocations of the ResearchAgent component that pass their guard
MaxRuns == 2
\* sendMessage invocations of the FloatingAgent component that pass the guard
MaxSends == 2
\* ticks of the Date.now() clock
MaxClock == 1

(***************************************************************************)
(* JavaScript values.                                                      *)
(***************************************************************************)
\* the value undefined (a missing field), kept apart from every string
Undefined == <<"<undefined>">>

\* JavaScript truthiness of a string, an array or undefined: undefined and
\* the empty string are falsy, every array (also the empty one) is truthy
Truthy(v) == v # Undefined /\ v # <<>>

\* undefined where an array of strings may stand, and where an array of
\* steps may stand
UndefinedList == <<Undefined>>

UndefinedSteps == <<[type |-> "<undefined>", content |-> Undefined]>>

\* truthiness of an array-or-undefined value ([] is truthy)
TruthyList(v) == v # UndefinedList

TruthySteps(v) == v # UndefinedSteps

\* a || b on strings
OrElse(a, b) == IF Truthy(a) THEN a ELSE b

Lower == <<"a","b","c","d","e","f","g","h","i","j","k","l","m",
           "n","o","p","q","r","s","t","u","v","w","x","y","z">>

Upper == <<"A","B","C","D","E","F","G","H","I","J","K","L","M",
           "N","O","P","Q","R","S","T","U","V","W","X","Y","Z">>

\* the characters String.prototype.trim removes and \s matches
Whitespace == {" ", "\t", "\n", "\r"}

Letters == {Upper[i] : i \in DOMAIN Upper} \cup {Lower[i] : i \in DOMAIN Lower}

\* [A-Z] under the i flag
IsLetter(c) == c \in Letters

UpperOf == [c \in {Lower[i] : i \in DOMAIN Lower} |->
               Upper[CHOOSE i \in DOMAIN Lower : Lower[i] = c]]

ToUpperChar(c) == IF c \in DOMAIN UpperOf THEN UpperOf[c] ELSE c

\* String.prototype.toUpperCase
ToUpperCase(s) == [i \in DOMAIN s |-> ToUpperChar(s[i])]

\* equality of two strings under the i flag
EqIgnoreCase(s, t) == ToUpperCase(s) = ToUpperCase(t)

RECURSIVE TrimStart(_)
TrimStart(s) ==
    IF s # <<>> /\ Head(s) \in Whitespace THEN TrimStart(Tail(s)) ELSE s

RECURSIVE TrimEnd(_)
TrimEnd(s) ==
    IF s # <<>> /\ s[Len(s)] \in Whitespace
    THEN TrimEnd(SubSeq(s, 1, Len(s) - 1))
    ELSE s

\* String.prototype.trim
Trim(s) == TrimEnd(TrimStart(s))

\* s.replace(pat, rep) with a string pattern: the first occurrence only
FirstIndexOf(s, pat) ==
    LET hits == {p \in 1..(Len(s) - Len(pat) + 1) :
                    SubSeq(s, p, p + Len(pat) - 1) = pat}
    IN  IF hits = {} THEN 0 ELSE CHOOSE p \in hits : \A q \in hits : p <= q

Replace(s, pat, rep) ==
    LET p == FirstIndexOf(s, pat)
    IN  IF p = 0 THEN s
        ELSE SubSeq(s, 1, p - 1) \o rep \o SubSeq(s, p + Len(pat), Len(s))

\* Array.prototype.join
RECURSIVE Join(_, _)
Join(arr, sep) ==
    IF arr = <<>> THEN <<>>
    ELSE IF Len(arr) = 1 THEN arr[1]
    ELSE arr[1] \o sep \o Join(Tail(arr), sep)

\* decimal digits of a natural number (template interpolation of a status)
RECURSIVE NumToStr(_)
NumToStr(n) ==
    LET d == <<"0","1","2","3","4","5","6","7","8","9">>[(n % 10) + 1]
    IN  IF n < 10 THEN <<d>> ELSE NumToStr(n \div 10) \o <<d>>

(***************************************************************************)
(* The classifier of FloatingAgent.sendMessage.  A match is the array      *)
(* String.prototype.match returns (m0 the whole match, m1 the first        *)
(* group), or null.                                                        *)
(***************************************************************************)
NullMatch == [found |-> FALSE, m0 |-> <<>>, m1 |-> <<>>]

AllLetters(s, i, k) == \A j \in i..k : IsLetter(s[j])

AllWhitespace(s, i, k) == \A j \in i..k : s[j] \in Whitespace

Max(S) == CHOOSE x \in S : \A y \in S : y <= x

Min(S) == CHOOSE x \in S : \A y \in S : x <= y

\* the market suffix (NS|BO) at position i, under the i flag
SuffixAt(s, i) ==
    /\ i + 1 <= Len(s)
    /\ \/ EqIgnoreCase(SubSeq(s, i, i + 1), <<"N","S">>)
       \/ EqIgnoreCase(SubSeq(s, i, i + 1), <<"B","O">>)

\* ends k of [A-Z]+ started at i after which \.(NS|BO) matches
TickerEnds(s, i) ==
    {k \in i..Len(s) :
        /\ k + 1 <= Len(s) /\ s[k + 1] = "."
        /\ SuffixAt(s, k + 2)
        /\ AllLetters(s, i, k)}

\* userInput.match(/([A-Z]+\.(NS|BO))/i)
MatchTickerSuffix(s) ==
    LET starts == {i \in 1..Len(s) : TickerEnds(s, i) # {}}
    IN  IF starts = {} THEN NullMatch
        ELSE LET i == Min(starts)
                 k == Max(TickerEnds(s, i))
                 m == SubSeq(s, i, k + 3)
             IN  [found |-> TRUE, m0 |-> m, m1 |-> m]

AnalyzeWord == <<"a","n","a","l","y","z","e">>

\* pairs <<w, k>>: \s+ spans i+7..w and [A-Z]+ spans w+1..k
AnalyzeSpans(s, i) ==
    IF ~ (i + Len(AnalyzeWord) - 1 <= Len(s)
          /\ EqIgnoreCase(SubSeq(s, i, i + Len(AnalyzeWord) - 1), AnalyzeWord))
    THEN {}
    ELSE LET a == i + Len(AnalyzeWord)
         IN  {wk \in (a..Len(s)) \X (a..Len(s)) :
                 /\ wk[1] < wk[2]
                 /\ AllWhitespace(s, a, wk[1])
                 /\ AllLetters(s, wk[1] + 1, wk[2])}

\* userInput.match(/analyze\s+([A-Z]+)/i)
MatchAnalyze(s) ==
    LET starts == {i \in 1..Len(s) : AnalyzeSpans(s, i) # {}}
    IN  IF starts = {} THEN NullMatch
        ELSE LET i  == Min(starts)
                 sp == AnalyzeSpans(s, i)
                 w  == Max({wk[1] : wk \in sp})
                 k  == Max({wk[2] : wk \in {x \in sp : x[1] = w}})
             IN  [found |-> TRUE, m0 |-> SubSeq(s, i, k),
                  m1 |-> SubSeq(s, w + 1, k)]

\* a || b on match results
OrMatch(a, b) == IF a.found THEN a ELSE b

\* the recognizers tried in the other order
TickerMatchAnalyzeFirst(userInput) ==
    OrMatch(MatchAnalyze(userInput), MatchTickerSuffix(userInput))

TickerMatch(userInput) ==
    OrMatch(MatchTickerSuffix(userInput), MatchAnalyze(userInput))

DefaultQuery ==
    <<"P","r","o","v","i","d","e"," ","a"," ","c","o","m","p","r","e","h","e",
      "n","s","i","v","e"," ","a","n","a","l","y","s","i","s">>

ExtractTicker(tickerMatch) ==
    OrElse(ToUpperCase(tickerMatch.m1), tickerMatch.m1)

\* the query without its default
ExtractQueryNoDefault(userInput, tickerMatch) ==
    Trim(Replace(userInput, tickerMatch.m0, <<>>))

ExtractQuery(userInput, tickerMatch) ==
    OrElse(Trim(Replace(userInput, tickerMatch.m0, <<>>)), DefaultQuery)

AutoModel == <<"a","u","t","o">>

\* the classifier with recognizer (a) only
ClassifyCallSuffixOnly(userInput) ==
    LET tickerMatch == MatchTickerSuffix(userInput)
    IN  IF tickerMatch.found
        THEN [op |-> "research", a1 |-> ExtractTicker(tickerMatch),
              a2 |-> ExtractQuery(userInput, tickerMatch)]
        ELSE [op |-> "llm", a1 |-> AutoModel, a2 |-> userInput]

\* the backend call sendMessage issues for a trimmed, non-blank input
ClassifyCall(userInput) ==
    LET tickerMatch == TickerMatch(userInput)
    IN  IF tickerMatch.found
        THEN [op |-> "research", a1 |-> ExtractTicker(tickerMatch),
              a2 |-> ExtractQuery(userInput, tickerMatch)]
        ELSE [op |-> "llm", a1 |-> AutoModel, a2 |-> userInput]

(***************************************************************************)
(* The backend as seen through fetch: a reply is either a rejection of the *)
(* fetch promise (no response at all) or a response with a status and a    *)
(* JSON body.                                                              *)
(***************************************************************************)
Statuses == {404, 500}

\* Response.ok: the status is in the range 200-299
ResponseOk(status) == 200 <= status /\ status <= 299

FailedToFetch == <<"F","a","i","l","e","d"," ","t","o"," ","f","e","t","c","h">>

NoBody == [none |-> TRUE]

NoReply == [rejects |-> FALSE, status |-> 0, body |-> NoBody]

FailedReplies ==
    {[rejects |-> TRUE, status |-> 0, body |-> NoBody]}
    \cup {[rejects |-> FALSE, status |-> st, body |-> NoBody] : st \in Statuses}

\* steps a research response may carry
StepTool ==
    [type |-> "tool",
     content |-> <<"f","e","t","c","h","e","d"," ","p","r","i","c","e">>]

StepUntyped == [type |-> "", content |-> <<"R","S","I"," ","7","1">>]

BuySignal == <<"B","u","y"," ","s","i","g","n","a","l">>

Overview == <<"O","v","e","r","v","i","e","w">>

BuyHold == << <<"B","u","y">>, <<"H","o","l","d">> >>

ResearchData(st, ai, sm, rec) ==
    [data |-> [steps |-> st, ai_summary |-> ai, summary |-> sm,
               recommendations |-> rec]]

\* bodies of successful research responses: {data: {steps?, ai_summary?,
\* summary?, recommendations?}}
ResearchBodies ==
    { ResearchData(<<StepTool>>, BuySignal, Undefined, UndefinedList),
      ResearchData(<<StepUntyped, StepTool>>, Undefined, Overview, UndefinedList),
      ResearchData(UndefinedSteps, Undefined, Undefined, BuyHold),
      ResearchData(UndefinedSteps, Undefined, Undefined, UndefinedList),
      ResearchData(<<>>, <<>>, Undefined, <<>>),
      ResearchData(UndefinedSteps, Overview, Undefined, BuyHold) }

RateLimited == <<"r","a","t","e"," ","l","i","m","i","t","e","d">>

Hello == <<"H","e","l","l","o">>

LLMBody(ok, resp, err) == [success |-> ok, response |-> resp, error |-> err]

\* bodies of successful llm responses: {success, model, response} or {error}
LLMBodies ==
    { LLMBody(TRUE, Hello, Undefined),
      LLMBody(FALSE, Undefined, RateLimited),
      LLMBody(FALSE, Undefined, Undefined),
      LLMBody(TRUE, <<>>, Undefined) }

ResearchReplies ==
    FailedReplies
    \cup {[rejects |-> FALSE, status |-> 200, body |-> b] : b \in ResearchBodies}

LLMReplies ==
    FailedReplies
    \cup {[rejects |-> FALSE, status |-> 200, body |-> b] : b \in LLMBodies}

(***************************************************************************)
(* The API client (agentApi, at the end of ResearchAgent.jsx).  The result *)
(* of a call is the value it resolves to or the Error it throws.           *)
(***************************************************************************)
Return(v) == [threw |-> FALSE, value |-> v, message |-> <<>>]

Throw(msg) == [threw |-> TRUE, value |-> NoBody, message |-> msg]

ResearchErrorLabel ==
    <<"R","e","s","e","a","r","c","h"," ","a","g","e","n","t"," ",
      "e","r","r","o","r",":"," ">>

LLMErrorLabel == <<"L","L","M"," ","A","P","I"," ","e","r","r","o","r",":"," ">>

\* the body returned whatever the status is
FetchJsonUnchecked(label, reply) ==
    IF reply.rejects THEN Throw(FailedToFetch) ELSE Return(reply.body)

\* await fetch(...); if (!res.ok) throw new Error(label + status);
\* return await res.json()
FetchJson(label, reply) ==
    IF reply.rejects THEN Throw(FailedToFetch)
    ELSE IF ~ ResponseOk(reply.status)
         THEN Throw(label \o NumToStr(reply.status))
         ELSE Return(reply.body)

RunResearchAgentApi(tkr, qry, reply) == FetchJson(ResearchErrorLabel, reply)

RunLLMApi(model, prompt, reply) == FetchJson(LLMErrorLabel, reply)

GeminiModel == <<"g","e","m","i","n","i","-","p","r","o">>

GroqModel == <<"g","r","o","q","-","l","l","a","m","a","3">>

\* the request a call puts in flight
Request(id, handler, op, a1, a2) ==
    [id |-> id, handler |-> handler, op |-> op, a1 |-> a1, a2 |-> a2]

(***************************************************************************)
(* State.  ResearchAgent: messages, steps, finalAns, loading, exporting,   *)
(* query, ticker, collapsedSteps (useState), the clock Date.now() reads,   *)
(* the requests in flight and the rejections no handler caught.            *)
(* FloatingAgent: faMessages (its messages), input, isThinking, its        *)
(* requests in flight and the backend calls it has made.                   *)
(* History variables: runs/stepsRun/finalAnsRun/latestRun record which run *)
(* of runAgent last wrote steps and finalAns; last and faLast record the   *)
(* most recent handler step and what it was given.                         *)
(* faOwners records, position by position, which call of sendMessage put  *)
(* each message of faMessages in the log, and as what.                     *)
(* running is the continuation of runAgent that is executing statement by  *)
(* statement (a handler runs to completion, so there is at most one), and  *)
(* apiResult the outcome of the latest direct call of an API client        *)
(* operation.                                                              *)
(***************************************************************************)
VARIABLES messages, steps, finalAns, loading, exporting, query, ticker,
          collapsedSteps, now, pending, uncaught, alerts,
          runs, stepsRun, finalAnsRun, latestRun, last,
          faMessages, input, isThinking, faPending, faCalls, faUncaught,
          faLast, faOwners, running, apiResult

raVars == <<messages, steps, finalAns, loading, exporting, query, ticker,
            collapsedSteps, now, pending, uncaught, alerts,
            runs, stepsRun, finalAnsRun, latestRun, last>>

faVars == <<faMessages, input, isThinking, faPending, faCalls, faUncaught,
            faLast, faOwners>>

auxVars == <<running, apiResult>>

vars == <<raVars, faVars, auxVars>>

Event(handler, phase, id, reply, lenBefore) ==
    [handler |-> handler, phase |-> phase, id |-> id, reply |-> reply,
     lenBefore |-> lenBefore]

RAInit ==
    /\ messages = <<>>
    /\ steps = <<>>
    /\ finalAns = <<>>
    /\ loading = FALSE
    /\ exporting = FALSE
    /\ query = <<>>
    /\ ticker = <<>>
    /\ collapsedSteps = <<>>
    /\ now = 0
    /\ pending = {}
    /\ uncaught = 0
    /\ alerts = 0
    /\ runs = 0
    /\ stepsRun = 0
    /\ finalAnsRun = 0
    /\ latestRun = 0
    /\ last = Event("none", "init", 0, NoReply, 0)

FAInit ==
    /\ faMessages = <<>>
    /\ input = <<>>
    /\ isThinking = FALSE
    /\ faPending = {}
    /\ faCalls = <<>>
    /\ faUncaught = 0
    /\ faLast = Event("none", "init", 0, NoReply, 0)
    /\ faOwners = <<>>

\* no continuation of runAgent is executing
NoRun == [id |-> 0, result |-> Return(NoBody), at |-> 0, cleared |-> FALSE]

\* no API client operation has been called directly
NoCall == [op |-> "none", a1 |-> <<>>, a2 |-> <<>>, reply |-> NoReply,
           result |-> Return(NoBody)]

AuxInit ==
    /\ running = NoRun
    /\ apiResult = NoCall

Init == RAInit /\ FAInit /\ AuxInit

\* the new messages put in the place of the log
AppendedReplacing(prev, added) == added

\* setMessages((prev) => [...prev, ...added])
Appended(prev, added) == prev \o added

(***************************************************************************)
(* ResearchAgent: the input fields and the clock.                          *)
(***************************************************************************)
QueryInputs == {<<>>, <<" ">>, <<"w","h","y","?">>}

TickerInputs == {<<" ">>, <<"T","C","S">>}

\* onChange of the query field
SetQuery ==
    /\ \E q \in QueryInputs : q # query /\ query' = q
    /\ UNCHANGED <<messages, steps, finalAns, loading, exporting, ticker,
                   collapsedSteps, now, pending, uncaught, alerts,
                   runs, stepsRun, finalAnsRun, latestRun, last>>
    /\ UNCHANGED <<faVars, auxVars>>

\* onChange of the ticker field
SetTicker ==
    /\ \E t \in TickerInputs : t # ticker /\ ticker' = t
    /\ UNCHANGED <<messages, steps, finalAns, loading, exporting, query,
                   collapsedSteps, now, pending, uncaught, alerts,
                   runs, stepsRun, finalAnsRun, latestRun, last>>
    /\ UNCHANGED <<faVars, auxVars>>

\* time passes: Date.now() is non-decreasing
Tick ==
    /\ now < MaxClock
    /\ now' = now + 1
    /\ UNCHANGED <<messages, steps, finalAns, loading, exporting, query,
                   ticker, collapsedSteps, pending, uncaught, alerts,
                   runs, stepsRun, finalAnsRun, latestRun, last>>
    /\ UNCHANGED <<faVars, auxVars>>

(***************************************************************************)
(* ResearchAgent.runAgent.                                                 *)
(***************************************************************************)
TickerLabel == <<"T","i","c","k","e","r",":"," ">>

QueryLabel == <<"\n","Q","u","e","r","y",":"," ">>

CrashText ==
    <<"R","e","s","e","a","r","c","h"," ","A","g","e","n","t"," ",
      "c","r","a","s","h","e","d","."," ","T","r","y"," ","a","g","a","i","n",".">>

Message(id, type, content) == [id |-> id, type |-> type, content |-> content]

\* the ticker left out of the test
RunAgentAcceptsQueryOnly == Trim(query) # <<>>

\* if (!query.trim() || !ticker.trim()) return;
RunAgentAccepts == Trim(query) # <<>> /\ Trim(ticker) # <<>>

\* runAgent up to its await: the user message, the reset of steps and
\* finalAns, loading, and the research request
RunAgentStart ==
    IF ~ RunAgentAccepts
    THEN /\ last' = Event("runAgent", "blank", 0, NoReply, Len(messages))
         /\ UNCHANGED <<messages, steps, finalAns, loading, exporting, query,
                        ticker, collapsedSteps, now, pending, uncaught,
                        alerts, runs, stepsRun, finalAnsRun, latestRun>>
    ELSE /\ runs < MaxRuns
         /\ LET id == runs + 1
            IN  /\ messages' = Appended(messages,
                       <<Message(now, "user",
                           TickerLabel \o ticker \o QueryLabel \o query)>>)
                /\ steps' = <<>>
                /\ finalAns' = <<>>
                /\ loading' = TRUE
                /\ pending' = pending \cup
                       {Request(id, "runAgent", "research", ticker, query)}
                /\ runs' = id
                /\ stepsRun' = id
                /\ finalAnsRun' = id
                /\ latestRun' = id
                /\ last' = Event("runAgent", "start", id, NoReply,
                                 Len(messages))
         /\ UNCHANGED <<exporting, query, ticker, collapsedSteps, now,
                        uncaught, alerts>>

\* the "Run Research Agent" button is disabled while loading
RunAgentClick ==
    /\ ~ loading
    /\ RunAgentStart
    /\ UNCHANGED <<faVars, auxVars>>

\* Enter in the query field calls runAgent whatever loading is
RunAgentEnter ==
    /\ RunAgentStart
    /\ UNCHANGED <<faVars, auxVars>>

\* steps appended to the list instead of replacing it
StepsAfterAppending(res, old) ==
    IF TruthySteps(res.data.steps) THEN old \o res.data.steps ELSE old

\* if (res.data?.steps) setSteps(res.data.steps)
StepsAfter(res, old) ==
    IF TruthySteps(res.data.steps) THEN res.data.steps ELSE old

\* if (res.data?.ai_summary) setFinalAns(res.data.ai_summary)
FinalAnsAfter(res, old) ==
    IF Truthy(res.data.ai_summary) THEN res.data.ai_summary ELSE old

\* the messages runAgent appends for a research result
ResearchResultMessages(res, t) ==
    IF Truthy(res.data.ai_summary)
    THEN <<Message(t + 1, "agent", res.data.ai_summary)>>
    ELSE <<>>

\* catch (error) { setMessages(... "Research Agent crashed. Try again.") }
RunAgentCatch(err, t) == <<Message(t + 2, "error", CrashText)>>

\* runAgent after its await, for the request p and the backend's reply
RunAgentSettle(p, reply) ==
    LET r == RunResearchAgentApi(p.a1, p.a2, reply)
    IN  /\ IF r.threw
           THEN /\ messages' = Appended(messages, RunAgentCatch(r, now))
                /\ UNCHANGED <<steps, finalAns, stepsRun, finalAnsRun>>
           ELSE /\ steps' = StepsAfter(r.value, steps)
                /\ finalAns' = FinalAnsAfter(r.value, finalAns)
                /\ messages' = Appended(messages,
                                      ResearchResultMessages(r.value, now))
                /\ stepsRun' = IF TruthySteps(r.value.data.steps)
                               THEN p.id ELSE stepsRun
                /\ finalAnsRun' = IF Truthy(r.value.data.ai_summary)
                                  THEN p.id ELSE finalAnsRun
        /\ loading' = FALSE
        /\ pending' = pending \ {p}
        /\ last' = Event("runAgent", "settle", p.id, reply, Len(messages))
        /\ UNCHANGED <<exporting, query, ticker, collapsedSteps, now,
                       uncaught, alerts, runs, latestRun>>

RunAgentDone ==
    /\ \E p \in pending : \E reply \in ResearchReplies :
          p.handler = "runAgent" /\ RunAgentSettle(p, reply)
    /\ UNCHANGED <<faVars, auxVars>>

(***************************************************************************)
(* ResearchAgent.runGemini and runGroq: no try/catch around the await.     *)
(***************************************************************************)
\* runGemini / runGroq up to the await
LLMStart(handler, model) ==
    IF Trim(query) = <<>>
    THEN /\ last' = Event(handler, "blank", 0, NoReply, Len(messages))
         /\ UNCHANGED <<messages, steps, finalAns, loading, exporting, query,
                        ticker, collapsedSteps, now, pending, uncaught,
                        alerts, runs, stepsRun, finalAnsRun, latestRun>>
    ELSE /\ runs < MaxRuns
         /\ loading' = TRUE
         /\ pending' = pending \cup
                {Request(runs + 1, handler, "llm", model, query)}
         /\ runs' = runs + 1
         /\ last' = Event(handler, "start", runs + 1, NoReply, Len(messages))
         /\ UNCHANGED <<messages, steps, finalAns, exporting, query, ticker,
                        collapsedSteps, now, uncaught, alerts, stepsRun,
                        finalAnsRun, latestRun>>

\* setMessages(prev => [...prev, {id: Date.now(), type: "agent",
\*                                content: res.response}])
LLMResultMessages(res, t) == <<Message(t, "agent", res.response)>>

\* runGemini / runGroq after the await: a rejected call leaves the async
\* function through the await, so nothing after it runs and the promise
\* the click handler dropped rejects unhandled
LLMSettle(p, reply) ==
    LET r == RunLLMApi(p.a1, p.a2, reply)
    IN  /\ IF r.threw
           THEN /\ uncaught' = uncaught + 1
                /\ UNCHANGED <<messages, loading>>
           ELSE /\ messages' = Appended(messages,
                                      LLMResultMessages(r.value, now))
                /\ loading' = FALSE
                /\ UNCHANGED uncaught
        /\ pending' = pending \ {p}
        /\ last' = Event(p.handler, "settle", p.id, reply, Len(messages))
        /\ UNCHANGED <<steps, finalAns, exporting, query, ticker,
                       collapsedSteps, now, alerts, runs, stepsRun,
                       finalAnsRun, latestRun>>

RunGemini ==
    /\ LLMStart("runGemini", GeminiModel)
    /\ UNCHANGED <<faVars, auxVars>>

RunGroq ==
    /\ LLMStart("runGroq", GroqModel)
    /\ UNCHANGED <<faVars, auxVars>>

RunGeminiDone ==
    /\ \E p \in pending : \E reply \in LLMReplies :
          p.handler = "runGemini" /\ LLMSettle(p, reply)
    /\ UNCHANGED <<faVars, auxVars>>

RunGroqDone ==
    /\ \E p \in pending : \E reply \in LLMReplies :
          p.handler = "runGroq" /\ LLMSettle(p, reply)
    /\ UNCHANGED <<faVars, auxVars>>

RunNext ==
    \/ SetQuery
    \/ SetTicker
    \/ RunAgentClick
    \/ RunAgentEnter
    \/ RunAgentDone
    \/ RunGemini
    \/ RunGroq
    \/ RunGeminiDone
    \/ RunGroqDone

\* the run handlers of the ResearchAgent component; the clock, which only
\* message ids read, stands still
SpecRun == Init /\ [][RunNext]_vars

ClockNext ==
    \/ Tick
    \/ RunNext

\* the run handlers with time passing between them
SpecClock == Init /\ [][ClockNext]_vars
(***************************************************************************)
(* FloatingAgent.sendMessage.                                              *)
(***************************************************************************)
ChatMessage(type, content) == [type |-> type, content |-> content]

\* what the user types in the chat panel
ChatInputs ==
    { <<" ">>,
      <<"h","i">>,
      <<"T","C","S",".","N","S"," ","o","k","?">> }

\* the call of sendMessage that appended a message, and whether the
\* message is the user's or part of the answer
Owner(run, role) == [run |-> run, role |-> role]

\* onChange of the chat input
SetInput(choices) ==
    /\ \E s \in choices : s # input /\ input' = s
    /\ UNCHANGED <<faMessages, isThinking, faPending, faCalls, faUncaught,
                   faLast, faOwners>>
    /\ UNCHANGED <<raVars, auxVars>>

\* sendMessage up to its await: the user message, the cleared input,
\* isThinking, and the backend call the classifier chooses
SendMessage ==
    /\ IF Trim(input) = <<>>
       THEN /\ faLast' = Event("sendMessage", "blank", 0, NoReply,
                               Len(faMessages))
            /\ UNCHANGED <<faMessages, input, isThinking, faPending, faCalls,
                           faUncaught, faOwners>>
       ELSE /\ Len(faCalls) < MaxSends
            /\ LET userInput == Trim(input)
                   call == ClassifyCall(userInput)
                   id == Len(faCalls) + 1
               IN  /\ faMessages' = Appended(faMessages,
                                      <<ChatMessage("user", input)>>)
                   /\ input' = <<>>
                   /\ isThinking' = TRUE
                   /\ faCalls' = Append(faCalls, call)
                   /\ faPending' = faPending \cup
                          {Request(id, "sendMessage", call.op, call.a1,
                                   call.a2)}
                   /\ faLast' = Event("sendMessage", "start", id, NoReply,
                                      Len(faMessages))
                   /\ faOwners' = Append(faOwners, Owner(id, "user"))
            /\ UNCHANGED faUncaught
    /\ UNCHANGED <<raVars, auxVars>>

\* res.data.steps.forEach(s => setMessages(prev => [...prev,
\*     {type: s.type || "step", content: s.content}]))
StepMessages(stepList) ==
    [i \in DOMAIN stepList |->
        ChatMessage(IF stepList[i].type # "" THEN stepList[i].type ELSE "step",
                    stepList[i].content)]

RecommendationsLabel ==
    <<"*","*","R","e","c","o","m","m","e","n","d","a","t","i","o","n","s",":",
      "*","*","\n">>

\* const summary = res.data?.ai_summary || res.data?.summary; then the
\* summary message, else the recommendations message, else nothing
SummaryMessages(res) ==
    LET summary == OrElse(res.data.ai_summary, res.data.summary)
    IN  IF Truthy(summary) THEN <<ChatMessage("agent", summary)>>
        ELSE IF TruthyList(res.data.recommendations)
        THEN <<ChatMessage("agent",
                   RecommendationsLabel
                   \o Join(res.data.recommendations, <<"\n">>))>>
        ELSE <<>>

\* the summary in front of the steps
ChatResearchMessagesSummaryFirst(res) ==
    SummaryMessages(res)
    \o (IF TruthySteps(res.data.steps) THEN StepMessages(res.data.steps)
        ELSE <<>>)

\* the messages sendMessage appends for a research result
ChatResearchMessages(res) ==
    (IF TruthySteps(res.data.steps) THEN StepMessages(res.data.steps)
     ELSE <<>>)
    \o SummaryMessages(res)

FailedToGetResponse ==
    <<"F","a","i","l","e","d"," ","t","o"," ","g","e","t"," ",
      "r","e","s","p","o","n","s","e">>

\* the message sendMessage appends for an llm result
ChatLLMMessages(res) ==
    IF res.success /\ Truthy(res.response)
    THEN <<ChatMessage("agent", res.response)>>
    ELSE <<ChatMessage("error", OrElse(res.error, FailedToGetResponse))>>

\* the prefix of the catch block's message: a warning sign and "Error: "
ErrorPrefix == <<"<warning sign>"," ","E","r","r","o","r",":"," ">>

AgentFailed ==
    <<"A","g","e","n","t"," ","f","a","i","l","e","d","."," ",
      "T","r","y"," ","a","g","a","i","n",".">>

\* catch (err) { setMessages(... `Error: ${err.message || "Agent failed.
\* Try again."}`) }
SendMessageCatch(err) ==
    <<ChatMessage("error", ErrorPrefix \o OrElse(err.message, AgentFailed))>>

\* sendMessage after its await, for the request p and the backend's reply
SendMessageSettle(p, reply) ==
    LET r == IF p.op = "research"
             THEN RunResearchAgentApi(p.a1, p.a2, reply)
             ELSE RunLLMApi(p.a1, p.a2, reply)
        added == IF r.threw THEN SendMessageCatch(r)
                 ELSE IF p.op = "research" THEN ChatResearchMessages(r.value)
                 ELSE ChatLLMMessages(r.value)
    IN  /\ faMessages' = Appended(faMessages, added)
        /\ faOwners' = faOwners
                           \o [i \in DOMAIN added |-> Owner(p.id, "response")]
        /\ isThinking' = FALSE
        /\ faPending' = faPending \ {p}
        /\ faLast' = Event("sendMessage", "settle", p.id, reply,
                           Len(faMessages))
        /\ UNCHANGED <<input, faCalls, faUncaught>>

SendMessageResearchDone ==
    /\ \E p \in faPending : \E reply \in ResearchReplies :
          p.op = "research" /\ SendMessageSettle(p, reply)
    /\ UNCHANGED <<raVars, auxVars>>

SendMessageLLMDone ==
    /\ \E p \in faPending : \E reply \in LLMReplies :
          p.op = "llm" /\ SendMessageSettle(p, reply)
    /\ UNCHANGED <<raVars, auxVars>>

TypeInput == SetInput(ChatInputs)

ChatNext ==
    \/ TypeInput
    \/ SendMessage
    \/ SendMessageResearchDone
    \/ SendMessageLLMDone

\* the FloatingAgent component
SpecChat == Init /\ [][ChatNext]_vars

(***************************************************************************)
(* ResearchAgent: the step list's collapse state and the PDF export.       *)
(***************************************************************************)
MaxExports == 1

\* !!collapsedSteps[index]: an index never toggled reads as undefined
Collapsed(flags, index) == index \in DOMAIN flags /\ flags[index]

\* the flag of the index set instead of negated
ToggledStepsCollapsing(prev, index) ==
    [j \in DOMAIN prev \cup {index} |->
        IF j = index THEN TRUE ELSE prev[j]]

\* setCollapsedSteps(prev => ({...prev, [index]: !prev[index]}))
ToggledSteps(prev, index) ==
    [j \in DOMAIN prev \cup {index} |->
        IF j = index THEN ~ Collapsed(prev, index) ELSE prev[j]]

\* the Collapse/Expand button of a rendered step (indices from 0)
ToggleStep ==
    /\ \E index \in 0..(Len(steps) - 1) :
          /\ collapsedSteps' = ToggledSteps(collapsedSteps, index)
          /\ last' = Event("toggleStep", "toggle", index, NoReply,
                           Len(messages))
    /\ UNCHANGED <<messages, steps, finalAns, loading, exporting, query,
                   ticker, now, pending, uncaught, alerts, runs, stepsRun,
                   finalAnsRun, latestRun>>
    /\ UNCHANGED <<faVars, auxVars>>

\* handleExportPdf up to its await (the button is disabled while exporting)
ExportStart ==
    /\ ~ exporting
    /\ alerts < MaxExports
    /\ exporting' = TRUE
    /\ UNCHANGED <<messages, steps, finalAns, loading, query, ticker,
                   collapsedSteps, now, pending, uncaught, alerts, runs,
                   stepsRun, finalAnsRun, latestRun, last>>
    /\ UNCHANGED <<faVars, auxVars>>

\* the rejection of html2canvas or jsPDF left to the caller: no alert, and
\* setExporting(false) is not reached
ExportDoneUncaught ==
    /\ exporting
    /\ \E threw \in BOOLEAN :
          /\ uncaught' = IF threw THEN uncaught + 1 ELSE uncaught
          /\ exporting' = ~ threw
          /\ last' = Event("handleExportPdf",
                           IF threw THEN "failed" ELSE "saved",
                           uncaught', NoReply, Len(messages))
    /\ UNCHANGED <<messages, steps, finalAns, loading, query, ticker,
                   collapsedSteps, now, pending, alerts, runs, stepsRun,
                   finalAnsRun, latestRun>>
    /\ UNCHANGED <<faVars, auxVars>>

\* handleExportPdf after its await: html2canvas or jsPDF may throw, which
\* the catch block reports with alert; setExporting(false) follows the
\* try/catch
ExportDone ==
    /\ exporting
    /\ \E threw \in BOOLEAN :
          /\ alerts' = IF threw THEN alerts + 1 ELSE alerts
          /\ last' = Event("handleExportPdf",
                           IF threw THEN "failed" ELSE "saved",
                           alerts', NoReply, Len(messages))
    /\ exporting' = FALSE
    /\ UNCHANGED <<messages, steps, finalAns, loading, query, ticker,
                   collapsedSteps, now, pending, uncaught, runs, stepsRun,
                   finalAnsRun, latestRun>>
    /\ UNCHANGED <<faVars, auxVars>>

ViewNext ==
    \/ ToggleStep
    \/ ExportStart
    \/ ExportDone

\* the research panel used through its buttons: research runs one after
\* the other, the step list and the export
ViewRunNext ==
    \/ SetQuery
    \/ SetTicker
    \/ RunAgentClick
    \/ RunAgentDone
    \/ ViewNext

SpecView == Init /\ [][ViewRunNext]_vars

(***************************************************************************)
(* The classifier on its own: the chat input starts as any of a family of  *)
(* strings built from pieces that make the two recognizers match, overlap  *)
(* or fail, and sendMessage runs on it.                                    *)
(***************************************************************************)
\* pieces concatenated into one classifier input
MaxPieces == 4

Pieces ==
    { <<"A","n","a","l","y","Z","e">>,
      <<" ">>,
      <<"T","c","s">>,
      <<".","N","S">>,
      <<".","b","o">>,
      <<"h","i","?">> }

RECURSIVE Concats(_)
Concats(n) ==
    IF n = 0 THEN {<<>>}
    ELSE LET shorter == Concats(n - 1)
         IN  shorter \cup {s \o pc : s \in shorter, pc \in Pieces}

RelianceInput ==
    <<"R","E","L","I","A","N","C","E",".","N","S"," ","d","e","s","c","r","i",
      "b","e"," ","t","h","e"," ","c","o","m","p","a","n","y">>

AnalyzeTcsInput == <<"a","n","a","l","y","z","e"," ","T","C","S">>

ClassifierInputs == Concats(MaxPieces) \cup {RelianceInput, AnalyzeTcsInput}

ClassifierInit ==
    /\ RAInit
    /\ AuxInit
    /\ faMessages = <<>>
    /\ input \in ClassifierInputs
    /\ isThinking = FALSE
    /\ faPending = {}
    /\ faCalls = <<>>
    /\ faUncaught = 0
    /\ faLast = Event("none", "init", 0, NoReply, 0)
    /\ faOwners = <<>>

ClassifierNext ==
    \/ SendMessage
    \/ SendMessageResearchDone
    \/ SendMessageLLMDone

SpecClassifier == ClassifierInit /\ [][ClassifierNext]_vars

(***************************************************************************)
(* Both components side by side.  They share no state, so a property of    *)
(* one component is checked under that component's own specification       *)
(* (SpecRun, SpecClock, SpecView, SpecStatements, SpecApi for the research *)
(* panel and its API client, SpecChat and SpecClassifier for the chat);    *)
(* the product below has tens of millions of states.                       *)
(***************************************************************************)
Next ==
    \/ ClockNext
    \/ ViewNext
    \/ ChatNext

Spec == Init /\ [][Next]_vars

(***************************************************************************)
(* One component at a time: the first step picks the component that is     *)
(* used, and the other one stays as constructed (no step of a component    *)
(* brings it back to its initial state).  The behaviours are those of      *)
(* SpecRun together with those of SpecChat.                                *)
(***************************************************************************)
EitherNext ==
    \/ FAInit /\ SetQuery
    \/ FAInit /\ SetTicker
    \/ FAInit /\ RunAgentClick
    \/ FAInit /\ RunAgentEnter
    \/ FAInit /\ RunAgentDone
    \/ FAInit /\ RunGemini
    \/ FAInit /\ RunGroq
    \/ FAInit /\ RunGeminiDone
    \/ FAInit /\ RunGroqDone
    \/ RAInit /\ TypeInput
    \/ RAInit /\ SendMessage
    \/ RAInit /\ SendMessageResearchDone
    \/ RAInit /\ SendMessageLLMDone

SpecEither == Init /\ [][EitherNext]_vars

(***************************************************************************)
(* runAgent after its await, statement by statement.  The continuation     *)
(* runs to completion: while it executes no other handler starts.  Each    *)
(* state is the component state with the updates queued so far applied.    *)
(***************************************************************************)
\* setLoading(false) moved in front of the try block's statements
RunAgentStatementsLoadingFirst(threw) ==
    IF threw
    THEN <<"setLoading", "catch">>
    ELSE <<"setLoading", "setSteps", "setFinalAns", "setMessages">>

\* the statements after the await in the order the code has them
RunAgentStatements(threw) ==
    IF threw
    THEN <<"catch", "setLoading">>
    ELSE <<"setSteps", "setFinalAns", "setMessages", "setLoading">>

\* the statements the running continuation has not executed yet
RemainingStatements ==
    LET all == RunAgentStatements(running.result.threw)
    IN  IF running = NoRun THEN <<>> ELSE SubSeq(all, running.at, Len(all))

\* the request of runAgent settles and its continuation is scheduled
RunAgentResume ==
    /\ running = NoRun
    /\ \E p \in pending : \E reply \in ResearchReplies :
          /\ p.handler = "runAgent"
          /\ running' = [id |-> p.id,
                         result |-> RunResearchAgentApi(p.a1, p.a2, reply),
                         at |-> 1, cleared |-> FALSE]
          /\ pending' = pending \ {p}
          /\ last' = Event("runAgent", "resume", p.id, reply, Len(messages))
    /\ UNCHANGED <<messages, steps, finalAns, loading, exporting, query,
                   ticker, collapsedSteps, now, uncaught, alerts, runs,
                   stepsRun, finalAnsRun, latestRun>>
    /\ UNCHANGED <<faVars, apiResult>>

\* the next statement of the continuation
RunAgentStatement ==
    /\ running # NoRun
    /\ LET all == RunAgentStatements(running.result.threw)
           stmt == all[running.at]
           res == running.result.value
       IN  /\ steps' = IF stmt = "setSteps"
                       THEN StepsAfter(res, steps) ELSE steps
           /\ stepsRun' = IF stmt = "setSteps" /\ TruthySteps(res.data.steps)
                          THEN running.id ELSE stepsRun
           /\ finalAns' = IF stmt = "setFinalAns"
                          THEN FinalAnsAfter(res, finalAns) ELSE finalAns
           /\ finalAnsRun' = IF stmt = "setFinalAns"
                                 /\ Truthy(res.data.ai_summary)
                             THEN running.id ELSE finalAnsRun
           /\ messages' =
                 IF stmt = "setMessages"
                 THEN Appended(messages, ResearchResultMessages(res, now))
                 ELSE IF stmt = "catch"
                 THEN Appended(messages, RunAgentCatch(running.result, now))
                 ELSE messages
           /\ loading' = IF stmt = "setLoading" THEN FALSE ELSE loading
           /\ running' = IF running.at = Len(all) THEN NoRun
                         ELSE [running EXCEPT
                                  !.at = @ + 1,
                                  !.cleared = @ \/ stmt = "setLoading"]
    /\ UNCHANGED <<exporting, query, ticker, collapsedSteps, now, pending,
                   uncaught, alerts, runs, latestRun, last>>
    /\ UNCHANGED <<faVars, apiResult>>

\* handlers start only between continuations
StatementsNext ==
    \/ running = NoRun /\ SetQuery
    \/ running = NoRun /\ SetTicker
    \/ running = NoRun /\ RunAgentClick
    \/ running = NoRun /\ RunAgentEnter
    \/ RunAgentResume
    \/ RunAgentStatement

SpecStatements == Init /\ [][StatementsNext]_vars

(***************************************************************************)
(* The API client called directly: each exported operation of agentApi is  *)
(* applied to arguments and to a response of the backend, and apiResult    *)
(* keeps what the call was given, what it sent and how it settled.         *)
(***************************************************************************)
\* the default value null of the optional parameters
Null == <<"<null>">>

SentimentErrorLabel ==
    <<"S","e","n","t","i","m","e","n","t"," ","a","g","e","n","t"," ",
      "e","r","r","o","r",":"," ">>

PortfolioErrorLabel ==
    <<"P","o","r","t","f","o","l","i","o"," ","a","g","e","n","t"," ",
      "e","r","r","o","r",":"," ">>

RunSentimentAgentApi(texts, sources, reply) ==
    FetchJson(SentimentErrorLabel, reply)

RunPortfolioAgentApi(tickers, watchlistId, reply) ==
    FetchJson(PortfolioErrorLabel, reply)

RunGeminiLLMApi(prompt, reply) == RunLLMApi(GeminiModel, prompt, reply)

RunGroqLLMApi(prompt, reply) == RunLLMApi(GroqModel, prompt, reply)

\* the path after API_BASE_URL and the object given to JSON.stringify
ApiRequest(op, a1, a2) ==
    CASE op = "research" ->
            [path |-> "/research", body |-> [ticker |-> a1, query |-> a2]]
      [] op = "sentiment" ->
            [path |-> "/sentiment", body |-> [texts |-> a1, sources |-> a2]]
      [] op = "portfolio" ->
            [path |-> "/portfolio",
             body |-> [tickers |-> a1, watchlist_id |-> a2]]
      [] op = "llm" ->
            [path |-> "/llm", body |-> [model |-> a1, prompt |-> a2]]

\* statuses on both sides of the range Response.ok accepts
ApiStatuses == {200, 201, 299, 300, 404, 500}

\* parsed JSON bodies of the endpoints no component reads
JsonBodies == {[detail |-> <<"o","k">>], [detail |-> <<>>]}

\* the fetch rejects, or resolves with a status and a JSON body
ApiReplies(bodies) ==
    {[rejects |-> TRUE, status |-> 0, body |-> NoBody]}
    \cup {[rejects |-> FALSE, status |-> st, body |-> b] :
             st \in ApiStatuses, b \in bodies}

TextLists == {<<>>, <<<<"u","p">>>>}

TickerLists == {<<<<"T","C","S">>>>, <<<<"T","C","S">>, <<"I","T","C">>>>}

\* what a call was given, what it sent and how it settled
ApiCall(op, a1, a2, reply, result) ==
    [op |-> op, a1 |-> a1, a2 |-> a2, request |-> ApiRequest(op, a1, a2),
     reply |-> reply, result |-> result]

CallResearchAgent ==
    /\ \E tkr \in TickerInputs : \E qry \in QueryInputs \cup {Null} :
          \E reply \in ApiReplies(ResearchBodies) :
              apiResult' = ApiCall("research", tkr, qry, reply,
                                   RunResearchAgentApi(tkr, qry, reply))
    /\ UNCHANGED <<raVars, faVars, running>>

CallSentimentAgent ==
    /\ \E texts \in TextLists : \E reply \in ApiReplies(JsonBodies) :
          apiResult' = ApiCall("sentiment", texts, Null, reply,
                               RunSentimentAgentApi(texts, Null, reply))
    /\ UNCHANGED <<raVars, faVars, running>>

CallPortfolioAgent ==
    /\ \E tickers \in TickerLists : \E reply \in ApiReplies(JsonBodies) :
          apiResult' = ApiCall("portfolio", tickers, Null, reply,
                               RunPortfolioAgentApi(tickers, Null, reply))
    /\ UNCHANGED <<raVars, faVars, running>>

CallLLM ==
    /\ \E prompt \in QueryInputs : \E reply \in ApiReplies(LLMBodies) :
          apiResult' = ApiCall("llm", AutoModel, prompt, reply,
                               RunLLMApi(AutoModel, prompt, reply))
    /\ UNCHANGED <<raVars, faVars, running>>

CallGeminiLLM ==
    /\ \E prompt \in QueryInputs : \E reply \in ApiReplies(LLMBodies) :
          apiResult' = ApiCall("llm", GeminiModel, prompt, reply,
                               RunGeminiLLMApi(prompt, reply))
    /\ UNCHANGED <<raVars, faVars, running>>

CallGroqLLM ==
    /\ \E prompt \in QueryInputs : \E reply \in ApiReplies(LLMBodies) :
          apiResult' = ApiCall("llm", GroqModel, prompt, reply,
                               RunGroqLLMApi(prompt, reply))
    /\ UNCHANGED <<raVars, faVars, running>>

ApiNext ==
    \/ CallResearchAgent
    \/ CallSentimentAgent
    \/ CallPortfolioAgent
    \/ CallLLM
    \/ CallGeminiLLM
    \/ CallGroqLLM

SpecApi == Init /\ [][ApiNext]_vars

(***************************************************************************)
(* Properties.                                                             *)
(***************************************************************************)
\* the handler step recorded in ev handled a response with a non-2xx status
HttpFailure(ev) ==
    ev.phase = "settle" /\ ~ ev.reply.rejects /\ ~ ResponseOk(ev.reply.status)

\* the handler step recorded in ev handled a 2xx response
HttpSuccess(ev) ==
    ev.phase = "settle" /\ ~ ev.reply.rejects /\ ResponseOk(ev.reply.status)

\* the messages the handler step recorded in ev appended to the log msgs
Added(msgs, ev) == SubSeq(msgs, ev.lenBefore + 1, Len(msgs))

IsAgent(m) == m.type = "agent"

IsUser(m) == m.type = "user"

\* C1: when a backend call fails with a non-2xx status, the handler that
\* issued it (runAgent, runGemini, runGroq, sendMessage) catches the failure
\* and the log gains exactly one message, of type error; no rejection is
\* left unhandled.
C1_FailureCaughtAtCallSite ==
    /\ uncaught = 0
    /\ faUncaught = 0
    /\ HttpFailure(last) =>
          /\ Len(Added(messages, last)) = 1
          /\ Added(messages, last)[1].type = "error"
    /\ HttpFailure(faLast) =>
          /\ Len(Added(faMessages, faLast)) = 1
          /\ Added(faMessages, faLast)[1].type = "error"

\* C2: once the request of a run has settled and its handler has run, the
\* flag of the component (loading, isThinking) is false again, whether the
\* request succeeded or failed.
C2_FlagClearedAfterSettle ==
    /\ last.phase = "settle" => ~ loading
    /\ faLast.phase = "settle" => ~ isThinking

\* C3: steps and finalAns both belong to one research run, the latest one
\* started (in flight or completed), in every reachable state.
C3_StepsAndAnswerOfLatestRun ==
    /\ stepsRun = latestRun
    /\ finalAnsRun = latestRun

\* the request of the latest accepted runAgent call is in flight
LatestRunInFlight ==
    \E p \in pending : p.handler = "runAgent" /\ p.id = latestRun

\* C4: an accepted runAgent call resets steps and finalAns before its
\* request is issued, so that while that request is in flight no steps and
\* no final answer are shown, and when its response omits steps (or
\* ai_summary) the step list (the final answer) stays empty.
C4_ResetBeforeRequest ==
    /\ LatestRunInFlight => steps = <<>> /\ finalAns = <<>>
    /\ (last.handler = "runAgent" /\ HttpSuccess(last)
            /\ last.id = latestRun) =>
          /\ ~ TruthySteps(last.reply.body.data.steps) => steps = <<>>
          /\ ~ Truthy(last.reply.body.data.ai_summary) => finalAns = <<>>

\* runAgent has just applied a response that has steps and an ai_summary
ResultWithStepsAndSummary ==
    /\ last.handler = "runAgent"
    /\ HttpSuccess(last)
    /\ TruthySteps(last.reply.body.data.steps)
    /\ Truthy(last.reply.body.data.ai_summary)

\* C5: after runAgent applies a successful response with steps S and
\* ai_summary a, steps is exactly S, finalAns is a, and the last message of
\* the log is an agent message with content a.
C5_ResultApplied ==
    ResultWithStepsAndSummary =>
        /\ steps = last.reply.body.data.steps
        /\ finalAns = last.reply.body.data.ai_summary
        /\ messages # <<>>
        /\ messages[Len(messages)].type = "agent"
        /\ messages[Len(messages)].content = last.reply.body.data.ai_summary

\* the second of two overlapping runs has applied such a response after
\* the first one left its own steps behind
C5_Witness ==
    /\ ResultWithStepsAndSummary
    /\ last.id = 2
    /\ latestRun = 2
    /\ pending = {}
    /\ Len(messages) >= 3
    /\ steps = <<StepTool>>

\* a response with no ai_summary and no summary but with recommendations
RecommendationsOnly(body) ==
    /\ ~ Truthy(body.data.ai_summary)
    /\ ~ Truthy(body.data.summary)
    /\ TruthyList(body.data.recommendations)

\* exactly one agent message among added, holding the recommendations
OneRecommendationsMessage(added, body) ==
    LET agents == SelectSeq(added, IsAgent)
    IN  /\ Len(agents) = 1
        /\ agents[1].content =
              RecommendationsLabel \o Join(body.data.recommendations, <<"\n">>)

\* C6: a successful research response with no ai_summary and no summary
\* but with recommendations R makes the handler (runAgent, sendMessage)
\* append exactly one agent message, "**Recommendations:**", a newline and
\* the elements of R joined with newlines.
C6_RecommendationsMessage ==
    /\ (last.handler = "runAgent" /\ HttpSuccess(last)
            /\ RecommendationsOnly(last.reply.body)) =>
          OneRecommendationsMessage(Added(messages, last), last.reply.body)
    /\ (HttpSuccess(faLast) /\ faCalls[faLast.id].op = "research"
            /\ RecommendationsOnly(faLast.reply.body)) =>
          OneRecommendationsMessage(Added(faMessages, faLast),
                                    faLast.reply.body)

\* the one message an llm response must produce
LLMMessageAsSpecified(added, body, fallbacks) ==
    /\ Len(added) = 1
    /\ IF body.success /\ Truthy(body.response)
       THEN added[1].type = "agent" /\ added[1].content = body.response
       ELSE /\ added[1].type = "error"
            /\ IF Truthy(body.error) THEN added[1].content = body.error
               ELSE added[1].content \in fallbacks

\* C7: handling an llm response appends exactly one message: an agent
\* message with the response text iff success and response are both
\* present, otherwise an error message with the error field or a fixed
\* fallback text; at every llm call site (sendMessage, runGemini, runGroq).
C7_LLMResultMessage ==
    /\ (last.handler \in {"runGemini", "runGroq"} /\ HttpSuccess(last)) =>
          LLMMessageAsSpecified(Added(messages, last), last.reply.body,
                                {FailedToGetResponse})
    /\ (HttpSuccess(faLast) /\ faCalls[faLast.id].op = "llm") =>
          LLMMessageAsSpecified(Added(faMessages, faLast), faLast.reply.body,
                                {FailedToGetResponse})

\* the texts of the user messages of the chat, in order: the i-th is the
\* input of the i-th accepted sendMessage
UserTexts == SelectSeq(faMessages, IsUser)

\* C8: sendMessage makes exactly one backend call per accepted input; for
\* an input that matches neither recognizer it is the llm operation with
\* model "auto" and the trimmed input as prompt, and for an input that
\* matches one it is the research operation.
C8_GenericInputToLLM ==
    /\ Len(faCalls) = Len(UserTexts)
    /\ Cardinality(faPending) <= Len(faCalls)
    /\ \A i \in DOMAIN faCalls :
          LET u == Trim(UserTexts[i].content)
          IN  IF ~ MatchTickerSuffix(u).found /\ ~ MatchAnalyze(u).found
              THEN faCalls[i] = [op |-> "llm", a1 |-> <<"a","u","t","o">>,
                                 a2 |-> u]
              ELSE faCalls[i].op = "research"

\* an input with surrounding whitespace went to the llm operation, trimmed,
\* and its response has been handled
C8_Witness ==
    /\ Len(faCalls) = 1
    /\ faCalls[1].op = "llm"
    /\ Len(faCalls[1].a2) < Len(UserTexts[1].content)
    /\ faLast.phase = "settle"

\* u with one occurrence of m removed, trimmed; the default when empty
QueryLeftBy(u, m) ==
    {LET rest == Trim(SubSeq(u, 1, p - 1) \o SubSeq(u, p + Len(m), Len(u)))
     IN  IF rest = <<>> THEN DefaultQuery ELSE rest :
        p \in {q \in 1..(Len(u) - Len(m) + 1) :
                 SubSeq(u, q, q + Len(m) - 1) = m}}

\* C9: when the classifier matches, the ticker of the research call is the
\* matched ticker in upper case and the query is the trimmed input with the
\* matched substring removed, or "Provide a comprehensive analysis" when
\* nothing remains; with the two examples of the specification.
C9_TickerAndQuery ==
    \A i \in DOMAIN faCalls :
        faCalls[i].op = "research" =>
            LET u == Trim(UserTexts[i].content)
                m == TickerMatch(u)
            IN  /\ faCalls[i].a1 = ToUpperCase(m.m1)
                /\ faCalls[i].a2 \in QueryLeftBy(u, m.m0)
                /\ u = RelianceInput =>
                      /\ faCalls[i].a1 =
                            <<"R","E","L","I","A","N","C","E",".","N","S">>
                      /\ faCalls[i].a2 =
                            <<"d","e","s","c","r","i","b","e"," ","t","h","e",
                              " ","c","o","m","p","a","n","y">>
                /\ u = AnalyzeTcsInput =>
                      /\ faCalls[i].a1 = <<"T","C","S">>
                      /\ faCalls[i].a2 = DefaultQuery

\* "analyze TCS" has been sent: ticker TCS and the default query
C9_Witness ==
    /\ Len(faCalls) = 1
    /\ UserTexts[1].content = AnalyzeTcsInput
    /\ faCalls[1].op = "research"
    /\ faCalls[1].a2 = DefaultQuery

\* the research call made from the match m of the input u
CallFrom(u, m) ==
    [op |-> "research", a1 |-> ExtractTicker(m), a2 |-> ExtractQuery(u, m)]

\* C10: recognizer (a), the ticker with a market suffix, takes precedence
\* over recognizer (b), "analyze <TICKER>": where (a) matches, ticker and
\* query are those of (a) alone; (b) decides only where (a) does not match.
C10_SuffixRecognizerFirst ==
    \A i \in DOMAIN faCalls :
        LET u == Trim(UserTexts[i].content)
            a == MatchTickerSuffix(u)
            b == MatchAnalyze(u)
        IN  /\ a.found => faCalls[i] = CallFrom(u, a)
            /\ (~ a.found /\ b.found) => faCalls[i] = CallFrom(u, b)

\* an input on which both recognizers match, with different tickers, has
\* been sent
C10_Witness ==
    /\ Len(faCalls) = 1
    /\ LET u == Trim(UserTexts[1].content)
       IN  /\ MatchTickerSuffix(u).found
           /\ MatchAnalyze(u).found
           /\ ExtractTicker(MatchTickerSuffix(u))
                 # ExtractTicker(MatchAnalyze(u))


(***************************************************************************)
(* C11..C20.                                                               *)
(***************************************************************************)
IsPrefix(s, t) == Len(s) <= Len(t) /\ SubSeq(t, 1, Len(s)) = s

\* C11: the message log of each component is append-only: across every
\* step the log before is a prefix of the log after, so no message is
\* removed, reordered or rewritten.
C11_LogsAppendOnly ==
    [][IsPrefix(messages, messages') /\ IsPrefix(faMessages, faMessages')]_vars

\* two overlapping operations of ResearchAgent have both added their
\* messages to a log that already held some
C11_Witness ==
    /\ Len(messages) >= 4
    /\ pending = {}
    /\ last.phase = "settle"
    /\ last.lenBefore >= 3

\* C12: in ResearchAgent the ids are strictly increasing along the log: of
\* any two messages the one appended later has the strictly larger id, so
\* ids are unique, whatever the interleaving of runAgent, runGemini and
\* runGroq under a clock that never goes back.
C12_IdsStrictlyIncreasing ==
    \A i \in 1..Len(messages) : \A j \in 1..Len(messages) :
        i < j => messages[i].id < messages[j].id

\* the operation's name in the message of its error
C13_Operation(op) ==
    CASE op = "research" ->
            <<"R","e","s","e","a","r","c","h"," ","a","g","e","n","t">>
      [] op = "sentiment" ->
            <<"S","e","n","t","i","m","e","n","t"," ","a","g","e","n","t">>
      [] op = "portfolio" ->
            <<"P","o","r","t","f","o","l","i","o"," ","a","g","e","n","t">>
      [] op = "llm" -> <<"L","L","M"," ","A","P","I">>

\* C13: each operation of the API client (research, sentiment, portfolio,
\* llm) that gets a response whose status is outside 200..299 throws an
\* error whose message is "<Operation> error: <status>" and returns no
\* body; on a status in 200..299 it returns the parsed body as it is.
C13_StatusDecidesResult ==
    (apiResult.op # "none" /\ ~ apiResult.reply.rejects) =>
        LET status == apiResult.reply.status
            result == apiResult.result
        IN  IF 200 <= status /\ status <= 299
            THEN ~ result.threw /\ result.value = apiResult.reply.body
            ELSE /\ result.threw
                 /\ result.value = NoBody
                 /\ result.message =
                        C13_Operation(apiResult.op)
                        \o <<" ","e","r","r","o","r",":"," ">>
                        \o NumToStr(status)

\* the portfolio operation was answered 404 with a JSON body and threw
C13_Witness ==
    /\ apiResult.op = "portfolio"
    /\ apiResult.reply.status = 404
    /\ apiResult.reply.body # NoBody
    /\ apiResult.result.threw

\* indices a step list of the model can have
StepIndices == 0..1

\* C14: toggleStep is an involution on the flag that is shown: from every
\* collapse state, an index never toggled included, calling toggleStep(i)
\* twice brings the collapsed flag shown for index i back to its value.
C14_ToggleTwice ==
    \A i \in StepIndices :
        Collapsed(ToggledSteps(ToggledSteps(collapsedSteps, i), i), i)
            = Collapsed(collapsedSteps, i)

\* index 0 was toggled twice and is shown expanded as at the start, while
\* index 1 is collapsed
C14_Witness ==
    /\ 0 \in DOMAIN collapsedSteps
    /\ ~ Collapsed(collapsedSteps, 0)
    /\ Collapsed(collapsedSteps, 1)
    /\ last.handler = "toggleStep"

\* C15: when the PDF export fails, the failure is caught and reported by
\* one alert, exporting goes back to false, and the step that handles the
\* failure leaves messages, steps, finalAns, loading and the collapse
\* state as they were.
C15_ExportFailureContained ==
    [][(last' # last /\ last'.handler = "handleExportPdf"
            /\ last'.phase = "failed")
        => /\ exporting
           /\ ~ exporting'
           /\ alerts' = alerts + 1
           /\ uncaught' = uncaught
           /\ UNCHANGED <<messages, steps, finalAns, loading,
                          collapsedSteps>>]_vars

\* an export failed while a research run was in flight and a step of an
\* earlier run was collapsed
C15_Witness ==
    /\ last.handler = "handleExportPdf"
    /\ last.phase = "failed"
    /\ alerts = 1
    /\ ~ exporting
    /\ loading
    /\ messages # <<>>
    /\ Collapsed(collapsedSteps, 0)

\* C16: in a research run, steps and finalAns are written only after the
\* run's request has settled and before the run clears loading: the run
\* has not cleared loading while one of its two updates is still to come
\* (and when it is the only run started, loading is still true then), and
\* steps and finalAns do not hold a run's result while its request is in
\* flight.
C16_ResultBetweenSettleAndClear ==
    LET updatePending ==
            \E k \in 1..Len(RemainingStatements) :
                RemainingStatements[k] \in {"setSteps", "setFinalAns"}
    IN  /\ updatePending => ~ running.cleared
        /\ (runs = 1 /\ (pending # {} \/ updatePending)) => loading
        /\ \A p \in pending :
              /\ ~ (stepsRun = p.id /\ steps # <<>>)
              /\ ~ (finalAnsRun = p.id /\ finalAns # <<>>)

\* the continuation of a run has written its steps and its summary and has
\* not reached setLoading(false) yet
C16_Witness ==
    /\ running # NoRun
    /\ running.at = 3
    /\ stepsRun = running.id
    /\ finalAnsRun = running.id
    /\ steps # <<>>
    /\ finalAns # <<>>
    /\ loading

\* C17: steps are expanded by default: every step of a research run that
\* has just completed is shown expanded as long as toggleStep has not been
\* called for its index during that run, whatever was collapsed in earlier
\* runs; and toggleStep(i) changes the flag of index i only.
C17_ExpandedByDefault ==
    /\ (last.handler = "runAgent" /\ last.phase = "settle") =>
           \A i \in 0..(Len(steps) - 1) : ~ Collapsed(collapsedSteps, i)
    /\ \A i \in StepIndices : \A j \in StepIndices :
           i # j => Collapsed(ToggledSteps(collapsedSteps, i), j)
                        = Collapsed(collapsedSteps, j)

\* empty, or white space only
Blank(s) == \A k \in 1..Len(s) : s[k] \in Whitespace

\* the step is a call of the handler (its part before the await)
Called(ev, evAfter, handlers) ==
    /\ evAfter # ev
    /\ evAfter.handler \in handlers
    /\ evAfter.phase \in {"blank", "start"}

\* C18: blank input is rejected before anything happens: sendMessage with
\* a blank input, runAgent with a blank query or a blank ticker, runGemini
\* and runGroq with a blank query append no message, put no request in
\* flight and leave every state variable of their component unchanged.
C18_BlankInputRejected ==
    [][/\ (Called(last, last', {"runAgent"})
               /\ (Blank(query) \/ Blank(ticker)))
           => UNCHANGED <<messages, steps, finalAns, loading, exporting,
                          query, ticker, collapsedSteps, pending, uncaught,
                          runs>>
       /\ (Called(last, last', {"runGemini", "runGroq"}) /\ Blank(query))
           => UNCHANGED <<messages, steps, finalAns, loading, exporting,
                          query, ticker, collapsedSteps, pending, uncaught,
                          runs>>
       /\ (Called(faLast, faLast', {"sendMessage"}) /\ Blank(input))
           => UNCHANGED <<faMessages, input, isThinking, faPending, faCalls,
                          faUncaught>>]_vars

\* runAgent was called with a query and a white-space ticker while the log
\* held messages, and returned at once
C18_Witness ==
    /\ last.handler = "runAgent"
    /\ last.phase = "blank"
    /\ ~ Blank(query)
    /\ ticker = <<" ">>
    /\ messages # <<>>

\* the handler step recorded in ev caught a transport failure: the fetch
\* rejected or the status was not 2xx
TransportFailure(ev) ==
    ev.phase = "settle" /\ (ev.reply.rejects \/ ~ ResponseOk(ev.reply.status))

\* the message of the error the API client threw for the reply
Description(label, reply) ==
    IF reply.rejects THEN FailedToFetch ELSE label \o NumToStr(reply.status)

\* the one message added is an error message that carries the description,
\* or the fallback when there is no description
CarriesDescription(added, description, fallback) ==
    /\ Len(added) = 1
    /\ added[1].type = "error"
    /\ IF description # <<>>
       THEN FirstIndexOf(added[1].content, description) # 0
       ELSE FirstIndexOf(added[1].content, fallback) # 0

\* C19: the error message appended when a transport failure is caught
\* carries the description of the caught error when it has one, and the
\* fixed fallback text only when it has none, in FloatingAgent.sendMessage
\* and in ResearchAgent.runAgent alike.
C19_ErrorMessageCarriesDescription ==
    /\ (TransportFailure(faLast) /\ faLast.handler = "sendMessage") =>
           CarriesDescription(
               Added(faMessages, faLast),
               Description(IF faCalls[faLast.id].op = "research"
                           THEN ResearchErrorLabel ELSE LLMErrorLabel,
                           faLast.reply),
               AgentFailed)
    /\ (TransportFailure(last) /\ last.handler = "runAgent") =>
           CarriesDescription(Added(messages, last),
                              Description(ResearchErrorLabel, last.reply),
                              CrashText)

\* C20: in ResearchAgent loading is true in every state in which a request
\* issued by runAgent, runGemini or runGroq is in flight: the completion of
\* one operation does not clear the flag while another is outstanding.
C20_LoadingWhileInFlight == pending # {} => loading

\* the positions of the log between i and k
Between(i, k) == {j \in DOMAIN faOwners : i <= j /\ j <= k}

\* C21: in FloatingAgent the messages of one research response (one per
\* step, in the order received, then the summary or recommendations
\* message of type agent) stand at consecutive positions of the log in
\* that order, also when several sendMessage calls are in flight: no
\* message of another call and no user message stands between them, and
\* the user message of a call stands before every message of its answer.
C21_ResponseMessagesContiguous ==
    /\ Len(faOwners) = Len(faMessages)
    /\ \A i \in DOMAIN faOwners : \A k \in DOMAIN faOwners :
          (i < k /\ faOwners[i].role = "response"
               /\ faOwners[k] = faOwners[i])
              => \A j \in Between(i, k) : faOwners[j] = faOwners[i]
    /\ \A i \in DOMAIN faOwners : \A j \in DOMAIN faOwners :
          (faOwners[i].role = "user" /\ faOwners[j].role = "response"
               /\ faOwners[i].run = faOwners[j].run)
              => i < j
    /\ (HttpSuccess(faLast) /\ faCalls[faLast.id].op = "research") =>
          LET data == faLast.reply.body.data
              n == IF TruthySteps(data.steps) THEN Len(data.steps) ELSE 0
              added == Added(faMessages, faLast)
              closes == \/ Truthy(data.ai_summary)
                        \/ Truthy(data.summary)
                        \/ TruthyList(data.recommendations)
          IN  /\ Len(added) = IF closes THEN n + 1 ELSE n
              /\ \A i \in 1..n : added[i].content = data.steps[i].content
              /\ closes => added[n + 1].type = "agent"
              /\ \A j \in Between(faLast.lenBefore + 1, Len(faMessages)) :
                    faOwners[j] = Owner(faLast.id, "response")

\* two research calls were in flight together and the second was answered
\* first: its steps and summary stand together before those of the first
C21_Witness ==
    /\ Len(faCalls) = 2
    /\ faCalls[1].op = "research"
    /\ faCalls[2].op = "research"
    /\ faPending = {}
    /\ Len(faOwners) >= 6
    /\ faOwners[1] = Owner(1, "user")
    /\ faOwners[2] = Owner(2, "user")
    /\ faOwners[3] = Owner(2, "response")
    /\ faOwners[4] = Owner(2, "response")
    /\ faOwners[Len(faOwners) - 1] = Owner(1, "response")
    /\ faOwners[Len(faOwners)] = Owner(1, "response")

=============================================================================
